---- MODULE Spec2Model ----
(***************************************************************************)
(* Model of the LiveTranscription component                                *)
(* (src/components/LiveTranscription.tsx; the second copy of the component *)
(* has the same handlers and adds only a display tab).                     *)
(*                                                                         *)
(* Strings that the program concatenates (the transcript, the recognized   *)
(* fragments) are sequences of characters; strings it only stores and      *)
(* compares (the summary, error messages) are TLA+ strings.                *)
(***************************************************************************)
EXTENDS Integers, Sequences, FiniteSets, TLC

\* ---------------------------------------------------------------- bounds
MaxLen == 3        \* longest transcript explored
MaxResults == 2    \* most results of one recognition session
MaxInflight == 2   \* most fetches in flight explored

\* ----------------------------------------------------------- value domains
Chars == {"a", " "}

\* the text of one recognition result
Segments == {<<"a">>}

RECURSIVE StringsUpTo(_)
StringsUpTo(n) ==
    IF n = 0 THEN {<<>>}
    ELSE LET S == StringsUpTo(n - 1)
         IN  S \cup {Append(s, c) : s \in {t \in S : Len(t) = n - 1}, c \in Chars}

ErrorKinds == {"no-speech", "network"}

FailedMsg == "Failed to summarize transcription."

NoSummaryMsg == "No summary available."

Summaries == {"## Key Points", "No summary generated."}

UpstreamErrors == {"upstream timeout", "quota exceeded"}

RequiredMsg == "Meeting text is required in the request body."

\* A settled fetch: rejected (transport failure), or a response with a
\* status, a body that parses as JSON or not, and the body's fields.
Resp(rejected, status, json, hasSummary, summary, error) ==
    [rejected |-> rejected, status |-> status, json |-> json,
     hasSummary |-> hasSummary, summary |-> summary, error |-> error]

NoResp == Resp(FALSE, 0, FALSE, FALSE, "", "")

Responses ==
    {Resp(TRUE, 0, FALSE, FALSE, "", "")}
    \cup {Resp(FALSE, 500, TRUE, FALSE, "", m) : m \in UpstreamErrors}
    \cup {Resp(FALSE, 400, TRUE, FALSE, "", RequiredMsg)}
    \cup {Resp(FALSE, 200, FALSE, FALSE, "", "")}
    \cup {Resp(FALSE, 200, TRUE, FALSE, "", "")}
    \cup {Resp(FALSE, 200, TRUE, TRUE, "", "")}
    \cup {Resp(FALSE, 200, TRUE, TRUE, s, "") : s \in Summaries}

\* ------------------------------------------------------------------ state
VARIABLES
    transcription,   \* useState<string>("")
    summarizedText,  \* useState<string>("")
    isListening,     \* useState<boolean>(false)
    isLoading,       \* useState<boolean>(false)
    isEditing,       \* useState<boolean>(false)
    recognition,     \* useRef: "null" or "engine"
    mounted,         \* the component is mounted (the effect's cleanup has not run)
    engine,          \* the recognition engine: "idle", "running", "stopping"
    results,         \* event.results of the engine's current session
    pending,         \* fetches in flight, each with the body it carries
    server,          \* the summarizer endpoint: the request it handles, its answer
    last             \* the last event and what it did (observation only)

progVars == <<transcription, summarizedText, isListening, isLoading, isEditing,
              recognition, mounted, engine, results, pending>>

vars == <<transcription, summarizedText, isListening, isLoading, isEditing,
          recognition, mounted, engine, results, pending, server, last>>

Ev(name, ran, seg, kind, resp, call) ==
    [name |-> name, ran |-> ran, seg |-> seg, kind |-> kind, resp |-> resp,
     call |-> call]

\* ---------------------------------------------------------- pure helpers
RECURSIVE Join(_)
\* Array.from(event.results).map((result) => result[0].transcript).join("")
Join(rs) == IF rs = <<>> THEN <<>> ELSE Head(rs) \o Join(Tail(rs))

\* response.ok
Ok(resp) == resp.status >= 200 /\ resp.status <= 299

\* variant: the empty-summary default is dropped (data.summary as is)
SummaryAfterNoDefault(resp) ==
    IF resp.rejected THEN FailedMsg
    ELSE IF ~Ok(resp) THEN FailedMsg
    ELSE IF ~resp.json THEN FailedMsg
    ELSE IF resp.hasSummary THEN resp.summary
    ELSE ""

\* variant: response.ok is not tested and the body's error text is shown
SummaryAfterShowsError(resp) ==
    IF resp.rejected THEN FailedMsg
    ELSE IF ~resp.json THEN FailedMsg
    ELSE IF resp.hasSummary /\ resp.summary # "" THEN resp.summary
    ELSE IF resp.error # "" THEN resp.error
    ELSE NoSummaryMsg

\* variant: the || operands are swapped ("No summary available." || data.summary)
SummaryAfterSwapped(resp) ==
    IF resp.rejected THEN FailedMsg
    ELSE IF ~Ok(resp) THEN FailedMsg
    ELSE IF ~resp.json THEN FailedMsg
    ELSE NoSummaryMsg

\* the string summarizeTranscription passes to setSummarizedText once the
\* fetch has settled
SummaryAfter(resp) ==
    IF resp.rejected THEN FailedMsg
    ELSE IF ~Ok(resp) THEN FailedMsg
    ELSE IF ~resp.json THEN FailedMsg
    ELSE IF resp.hasSummary /\ resp.summary # "" THEN resp.summary
    ELSE NoSummaryMsg

RemoveAt(s, i) == SubSeq(s, 1, i - 1) \o SubSeq(s, i + 1, Len(s))

\* ------------------------------------------------------------- endpoint
\* A request body as the endpoint reads it: it parses as JSON or not, and has
\* a meetingText field or not.
Body(json, hasText, meetingText) ==
    [json |-> json, hasText |-> hasText, meetingText |-> meetingText]

NoBody == Body(FALSE, FALSE, <<>>)

RequestBodies ==
    {Body(FALSE, FALSE, <<>>), Body(TRUE, FALSE, <<>>)}
    \cup {Body(TRUE, TRUE, t) : t \in StringsUpTo(MaxLen)}

\* What openai.chat.completions.create does: it returns a completion with a
\* content string, one without content, or throws an Error or something else.
Up(kind, text) == [kind |-> kind, text |-> text]

NoUp == Up("none", "")

UpstreamOutcomes ==
    {Up("content", s) : s \in Summaries \cup {""}}
    \cup {Up("nocontent", "")}
    \cup {Up("error", m) : m \in UpstreamErrors}
    \cup {Up("thrown", "")}

NoSummaryGenerated == "No summary generated."

UnknownErrorMsg ==
    "An unknown error occurred while generating the meeting summary."

JsonErrorMsg == "Unexpected end of JSON input"

Answer(resp, called) == [resp |-> resp, called |-> called]

\* variant: the content default is missing ({ summary: content } as returned)
POSTNoDefault(req, up) ==
    IF ~req.json
    THEN Answer(Resp(FALSE, 500, TRUE, FALSE, "", JsonErrorMsg), FALSE)
    ELSE IF ~req.hasText \/ req.meetingText = <<>>
    THEN Answer(Resp(FALSE, 400, TRUE, FALSE, "", RequiredMsg), FALSE)
    ELSE IF up.kind = "error"
    THEN Answer(Resp(FALSE, 500, TRUE, FALSE, "", up.text), TRUE)
    ELSE IF up.kind = "thrown"
    THEN Answer(Resp(FALSE, 500, TRUE, FALSE, "", UnknownErrorMsg), TRUE)
    ELSE IF up.kind = "content"
    THEN Answer(Resp(FALSE, 200, TRUE, TRUE, up.text, ""), TRUE)
    ELSE Answer(Resp(FALSE, 200, TRUE, FALSE, "", ""), TRUE)

\* variant: the meetingText check is missing
POSTUnchecked(req, up) ==
    IF ~req.json
    THEN Answer(Resp(FALSE, 500, TRUE, FALSE, "", JsonErrorMsg), FALSE)
    ELSE IF up.kind = "error"
    THEN Answer(Resp(FALSE, 500, TRUE, FALSE, "", up.text), TRUE)
    ELSE IF up.kind = "thrown"
    THEN Answer(Resp(FALSE, 500, TRUE, FALSE, "", UnknownErrorMsg), TRUE)
    ELSE IF up.kind = "content" /\ up.text # ""
    THEN Answer(Resp(FALSE, 200, TRUE, TRUE, up.text, ""), TRUE)
    ELSE Answer(Resp(FALSE, 200, TRUE, TRUE, NoSummaryGenerated, ""), TRUE)

\* POST: the response to a request, given what the upstream model does when
\* it is called, and whether it was called
POST(req, up) ==
    IF ~req.json
    THEN Answer(Resp(FALSE, 500, TRUE, FALSE, "", JsonErrorMsg), FALSE)
    ELSE IF ~req.hasText \/ req.meetingText = <<>>
    THEN Answer(Resp(FALSE, 400, TRUE, FALSE, "", RequiredMsg), FALSE)
    ELSE IF up.kind = "error"
    THEN Answer(Resp(FALSE, 500, TRUE, FALSE, "", up.text), TRUE)
    ELSE IF up.kind = "thrown"
    THEN Answer(Resp(FALSE, 500, TRUE, FALSE, "", UnknownErrorMsg), TRUE)
    ELSE IF up.kind = "content" /\ up.text # ""
    THEN Answer(Resp(FALSE, 200, TRUE, TRUE, up.text, ""), TRUE)
    ELSE Answer(Resp(FALSE, 200, TRUE, TRUE, NoSummaryGenerated, ""), TRUE)

Srv(stage, req, up, resp, called) ==
    [stage |-> stage, req |-> req, up |-> up, resp |-> resp, called |-> called]

ServerIdle == Srv("idle", NoBody, NoUp, NoResp, FALSE)

\* ------------------------------------------------------------------- Init
\* The state after the first render and its effect: the engine object exists
\* iff the host has webkitSpeechRecognition.
Init ==
    /\ transcription = <<>>
    /\ summarizedText = ""
    /\ isListening = FALSE
    /\ isLoading = FALSE
    /\ isEditing = FALSE
    /\ recognition \in {"null", "engine"}
    /\ mounted = TRUE
    /\ engine = "idle"
    /\ results = <<>>
    /\ pending = <<>>
    /\ server = ServerIdle
    /\ last = Ev("Init", FALSE, <<>>, "", NoResp, "none")

\* --------------------------------------------------------------- handlers
\* variant: setIsListening(true) comes before recognition.current.start()
startListeningSetsFirst ==
    IF recognition = "null"
    THEN /\ UNCHANGED progVars
         /\ last' = Ev("StartCapture", TRUE, <<>>, "", NoResp, "none")
    ELSE IF engine # "idle"
    THEN /\ isListening' = TRUE
         /\ UNCHANGED <<transcription, summarizedText, isLoading, isEditing,
                        recognition, mounted, engine, results, pending>>
         /\ last' = Ev("StartCapture", TRUE, <<>>, "", NoResp, "startThrew")
    ELSE /\ engine' = "running"
         /\ results' = <<>>
         /\ isListening' = TRUE
         /\ UNCHANGED <<transcription, summarizedText, isLoading, isEditing,
                        recognition, mounted, pending>>
         /\ last' = Ev("StartCapture", TRUE, <<>>, "", NoResp, "start")

startListening ==
    IF recognition = "null"
    THEN /\ UNCHANGED progVars
         /\ last' = Ev("StartCapture", TRUE, <<>>, "", NoResp, "none")
    ELSE IF engine # "idle"
    THEN \* start() on a started engine throws; setIsListening is not reached
         /\ UNCHANGED progVars
         /\ last' = Ev("StartCapture", TRUE, <<>>, "", NoResp, "startThrew")
    ELSE /\ engine' = "running"
         /\ results' = <<>>
         /\ isListening' = TRUE
         /\ UNCHANGED <<transcription, summarizedText, isLoading, isEditing,
                        recognition, mounted, pending>>
         /\ last' = Ev("StartCapture", TRUE, <<>>, "", NoResp, "start")

stopListening ==
    IF recognition = "null"
    THEN /\ UNCHANGED progVars
         /\ last' = Ev("StopCapture", TRUE, <<>>, "", NoResp, "none")
    ELSE /\ engine' = IF engine = "running" THEN "stopping" ELSE engine
         /\ isListening' = FALSE
         /\ UNCHANGED <<transcription, summarizedText, isLoading, isEditing,
                        recognition, mounted, results, pending>>
         /\ last' = Ev("StopCapture", TRUE, <<>>, "", NoResp, "stop")

summarizeTranscription ==
    IF transcription = <<>>
    THEN /\ UNCHANGED progVars
         /\ last' = Ev("RequestSummary", TRUE, <<>>, "", NoResp, "none")
    ELSE /\ isLoading' = TRUE
         /\ pending' = Append(pending, [meetingText |-> transcription])
         /\ UNCHANGED <<transcription, summarizedText, isListening, isEditing,
                        recognition, mounted, engine, results>>
         /\ last' = Ev("RequestSummary", TRUE, <<>>, "", NoResp, "fetch")

\* variant: clearing also drops the request in flight
clearTranscriptionCancels ==
    /\ transcription' = <<>>
    /\ summarizedText' = ""
    /\ isLoading' = FALSE
    /\ pending' = <<>>
    /\ UNCHANGED <<isListening, isEditing, recognition, mounted, engine, results>>
    /\ last' = Ev("ClearAll", TRUE, <<>>, "", NoResp, "none")

clearTranscription ==
    /\ transcription' = <<>>
    /\ summarizedText' = ""
    /\ UNCHANGED <<isListening, isLoading, isEditing, recognition, mounted,
                   engine, results, pending>>
    /\ last' = Ev("ClearAll", TRUE, <<>>, "", NoResp, "none")

toggleEditing ==
    /\ isEditing' = ~isEditing
    /\ UNCHANGED <<transcription, summarizedText, isListening, isLoading,
                   recognition, mounted, engine, results, pending>>
    /\ last' = Ev("ToggleEdit", TRUE, <<>>, "", NoResp, "none")

\* ---------------------------------------------- what the render offers
\* variant: the Start button lacks disabled={isListening}
StartEnabledAlways == TRUE

StartEnabled == ~isListening

StopEnabled == isListening

ToolbarShown == transcription # <<>>

\* variant: the textarea is rendered whatever isEditing is
TextareaShownAlways == transcription # <<>>

TextareaShown == transcription # <<>> /\ isEditing

\* variant: the button lacks disabled={isLoading}
SummarizeEnabledWhileLoading == transcription # <<>>

SummarizeEnabled == transcription # <<>> /\ ~isLoading

Ignored(name) ==
    /\ UNCHANGED progVars
    /\ last' = Ev(name, FALSE, <<>>, "", NoResp, "none")

\* ------------------------------------------------------------ user intents
StartCapture ==
    /\ UNCHANGED server
    /\ mounted
    /\ IF StartEnabled THEN startListening ELSE Ignored("StartCapture")

StopCapture ==
    /\ UNCHANGED server
    /\ mounted
    /\ IF StopEnabled THEN stopListening ELSE Ignored("StopCapture")

RequestSummary ==
    /\ UNCHANGED server
    /\ mounted
    /\ Len(pending) < MaxInflight
    /\ IF SummarizeEnabled THEN summarizeTranscription
       ELSE Ignored("RequestSummary")

ClearAll ==
    /\ UNCHANGED server
    /\ mounted
    /\ IF ToolbarShown THEN clearTranscription ELSE Ignored("ClearAll")

ToggleEdit ==
    /\ UNCHANGED server
    /\ mounted
    /\ IF ToolbarShown THEN toggleEditing ELSE Ignored("ToggleEdit")

\* variant: an edit also discards the summary
EditedTextDropsSummary ==
    /\ UNCHANGED server
    /\ mounted
    /\ IF TextareaShown
       THEN \E text \in StringsUpTo(MaxLen) :
              /\ transcription' = text
              /\ summarizedText' = ""
              /\ UNCHANGED <<isListening, isLoading, isEditing,
                             recognition, mounted, engine, results, pending>>
              /\ last' = Ev("EditedText", TRUE, text, "", NoResp, "none")
       ELSE Ignored("EditedText")

\* textarea onChange: (e) => setTranscription(e.target.value)
EditedText ==
    /\ UNCHANGED server
    /\ mounted
    /\ IF TextareaShown
       THEN \E text \in StringsUpTo(MaxLen) :
              /\ transcription' = text
              /\ UNCHANGED <<summarizedText, isListening, isLoading, isEditing,
                             recognition, mounted, engine, results, pending>>
              /\ last' = Ev("EditedText", TRUE, text, "", NoResp, "none")
       ELSE Ignored("EditedText")

\* ----------------------------------------------------------- engine events
\* A final result of the running session: the engine adds it to the session's
\* result list and delivers the whole list (continuous = true).
onresult ==
    /\ UNCHANGED server
    /\ recognition = "engine" \/ ~mounted
    /\ engine \in {"running", "stopping"}
    /\ Len(results) < MaxResults
    /\ \E seg \in Segments :
         LET rs == Append(results, seg)
             transcript == Join(rs)
         IN  /\ Len(transcription) + Len(transcript) <= MaxLen
             /\ results' = rs
             /\ transcription' =
                  IF mounted THEN transcription \o transcript ELSE transcription
             /\ UNCHANGED <<summarizedText, isListening, isLoading, isEditing,
                            recognition, mounted, engine, pending>>
             /\ last' = Ev("RecognizedSegment", mounted, seg, "", NoResp, "none")

\* variant: the handler gives up listening on any error
onerrorStopsListening ==
    /\ UNCHANGED server
    /\ engine \in {"running", "stopping"}
    /\ \E kind \in ErrorKinds, host \in {"ended", "ending"} :
         /\ UNCHANGED <<transcription, summarizedText, isLoading,
                        isEditing, recognition, mounted, pending>>
         /\ isListening' = FALSE
         /\ IF kind = "no-speech" /\ recognition = "engine"
            THEN IF host = "ended"
                 THEN /\ engine' = "running"
                      /\ results' = <<>>
                      /\ last' = Ev("CaptureError", TRUE, <<>>, kind, NoResp, "start")
                 ELSE /\ engine' = "idle"
                      /\ results' = <<>>
                      /\ last' = Ev("CaptureError", TRUE, <<>>, kind, NoResp,
                                    "startThrew")
            ELSE /\ engine' = "idle"
                 /\ results' = <<>>
                 /\ last' = Ev("CaptureError", TRUE, <<>>, kind, NoResp, "none")

\* An error event.  The engine's session is over once the error has fired;
\* whether the engine already counts as ended while the handler runs
\* ("ended": a start() in the handler begins a new session) or only after it
\* ("ending": that start() throws) is up to the host.
onerror ==
    /\ UNCHANGED server
    /\ engine \in {"running", "stopping"}
    /\ \E kind \in ErrorKinds, host \in {"ended", "ending"} :
         /\ UNCHANGED <<transcription, summarizedText, isListening, isLoading,
                        isEditing, recognition, mounted, pending>>
         /\ IF kind = "no-speech" /\ recognition = "engine"
            THEN IF host = "ended"
                 THEN /\ engine' = "running"
                      /\ results' = <<>>
                      /\ last' = Ev("CaptureError", TRUE, <<>>, kind, NoResp, "start")
                 ELSE /\ engine' = "idle"
                      /\ results' = <<>>
                      /\ last' = Ev("CaptureError", TRUE, <<>>, kind, NoResp,
                                    "startThrew")
            ELSE /\ engine' = "idle"
                 /\ results' = <<>>
                 /\ last' = Ev("CaptureError", TRUE, <<>>, kind, NoResp, "none")

\* the end of a session that was asked to stop (no handler is registered)
EngineEnd ==
    /\ UNCHANGED server
    /\ engine = "stopping"
    /\ engine' = "idle"
    /\ results' = <<>>
    /\ UNCHANGED <<transcription, summarizedText, isListening, isLoading,
                   isEditing, recognition, mounted, pending>>
    /\ last' = Ev("EngineEnd", FALSE, <<>>, "", NoResp, "none")

\* variant: a failed request is sent again
ResolveRetries ==
    /\ UNCHANGED server
    /\ \E i \in 1..Len(pending), resp \in Responses :
        /\ pending' = IF resp.rejected \/ ~Ok(resp)
                      THEN Append(RemoveAt(pending, i), pending[i])
                      ELSE RemoveAt(pending, i)
        /\ summarizedText' = IF mounted THEN SummaryAfter(resp) ELSE summarizedText
        /\ isLoading' = IF mounted THEN FALSE ELSE isLoading
        /\ UNCHANGED <<transcription, isListening, isEditing, recognition,
                       mounted, engine, results>>
        /\ last' = Ev("Resolve", mounted, <<>>, "", resp, "none")

\* variant: setIsLoading(false) is in the try block, not in finally
ResolveNoFinally ==
    /\ UNCHANGED server
    /\ \E i \in 1..Len(pending), resp \in Responses :
        /\ pending' = RemoveAt(pending, i)
        /\ summarizedText' = IF mounted THEN SummaryAfter(resp) ELSE summarizedText
        /\ isLoading' = IF mounted /\ ~resp.rejected /\ Ok(resp) /\ resp.json
                        THEN FALSE ELSE isLoading
        /\ UNCHANGED <<transcription, isListening, isEditing, recognition,
                       mounted, engine, results>>
        /\ last' = Ev("Resolve", mounted, <<>>, "", resp, "none")

\* ------------------------------------------------------ fetch settles
\* The rest of summarizeTranscription after its awaits: try / catch / finally.
\* State updates of an unmounted component are dropped.
Resolve ==
    /\ UNCHANGED server
    /\ \E i \in 1..Len(pending), resp \in Responses :
        /\ pending' = RemoveAt(pending, i)
        /\ summarizedText' = IF mounted THEN SummaryAfter(resp) ELSE summarizedText
        /\ isLoading' = IF mounted THEN FALSE ELSE isLoading
        /\ UNCHANGED <<transcription, isListening, isEditing, recognition,
                       mounted, engine, results>>
        /\ last' = Ev("Resolve", mounted, <<>>, "", resp, "none")

\* variant: the cleanup stops the engine but keeps the reference
UnmountKeepsRef ==
    /\ UNCHANGED server
    /\ mounted
    /\ mounted' = FALSE
    /\ recognition' = recognition
    /\ engine' = IF recognition = "engine" /\ engine = "running"
                 THEN "stopping" ELSE engine
    /\ transcription' = <<>>
    /\ summarizedText' = ""
    /\ isListening' = FALSE
    /\ isLoading' = FALSE
    /\ isEditing' = FALSE
    /\ UNCHANGED <<results, pending>>
    /\ last' = Ev("Unmount", TRUE, <<>>, "", NoResp,
                  IF recognition = "engine" THEN "stop" ELSE "none")

\* ------------------------------------------------------------- teardown
\* the effect's cleanup: recognition.current?.stop(); recognition.current = null.
\* The component's state is discarded with the component: its variables go
\* back to their initial values and are never written again.
Unmount ==
    /\ UNCHANGED server
    /\ mounted
    /\ mounted' = FALSE
    /\ recognition' = "null"
    /\ engine' = IF recognition = "engine" /\ engine = "running"
                 THEN "stopping" ELSE engine
    /\ transcription' = <<>>
    /\ summarizedText' = ""
    /\ isListening' = FALSE
    /\ isLoading' = FALSE
    /\ isEditing' = FALSE
    /\ UNCHANGED <<results, pending>>
    /\ last' = Ev("Unmount", TRUE, <<>>, "", NoResp,
                  IF recognition = "engine" THEN "stop" ELSE "none")

Next ==
    \/ StartCapture
    \/ StopCapture
    \/ RequestSummary
    \/ ClearAll
    \/ ToggleEdit
    \/ EditedText
    \/ onresult
    \/ onerror
    \/ EngineEnd
    \/ Resolve
    \/ Unmount

Spec == Init /\ [][Next]_vars

\* ---------------------------------------------- the endpoint on its own
\* a request reaches the endpoint
Receive ==
    /\ server.stage \in {"idle", "answered"}
    /\ \E req \in RequestBodies :
         server' = Srv("received", req, NoUp, NoResp, FALSE)
    /\ UNCHANGED progVars
    /\ last' = Ev("Receive", TRUE, <<>>, "", NoResp, "none")

\* the endpoint handles the request and answers
Answered ==
    /\ server.stage = "received"
    /\ \E up \in UpstreamOutcomes :
         LET a == POST(server.req, up)
         IN  /\ server' = Srv("answered", server.req,
                               IF a.called THEN up ELSE NoUp, a.resp, a.called)
             /\ last' = Ev("POST", TRUE, <<>>, "", a.resp, "none")
    /\ UNCHANGED progVars

NextEndpoint ==
    \/ Receive
    \/ Answered

SpecEndpoint == Init /\ [][NextEndpoint]_vars

\* --------------------------------------- the component with the endpoint
\* body: JSON.stringify({ meetingText: transcription }), as request.json()
\* reads it back
Stringify(p) == Body(TRUE, TRUE, p.meetingText)

\* The fetch settles against this endpoint: the transport fails, or the
\* endpoint's answer to the request arrives; then try / catch / finally as in
\* Resolve.
ResolveComposed ==
    /\ UNCHANGED server
    /\ \E i \in 1..Len(pending) :
         \E o \in {[kind |-> "rejected", resp |-> Resp(TRUE, 0, FALSE, FALSE, "", "")]}
                 \cup {[kind |-> up.kind, resp |-> POST(Stringify(pending[i]), up).resp] :
                         up \in UpstreamOutcomes} :
            /\ pending' = RemoveAt(pending, i)
            /\ summarizedText' =
                 IF mounted THEN SummaryAfter(o.resp) ELSE summarizedText
            /\ isLoading' = IF mounted THEN FALSE ELSE isLoading
            /\ UNCHANGED <<transcription, isListening, isEditing, recognition,
                           mounted, engine, results>>
            /\ last' = Ev("Resolve", mounted, <<>>, o.kind, o.resp, "none")

NextComposed ==
    \/ StartCapture
    \/ StopCapture
    \/ RequestSummary
    \/ ClearAll
    \/ ToggleEdit
    \/ EditedText
    \/ onresult
    \/ onerror
    \/ EngineEnd
    \/ ResolveComposed
    \/ Unmount

SpecComposed == Init /\ [][NextComposed]_vars

TypeOK ==
    /\ transcription \in StringsUpTo(MaxLen)
    /\ isListening \in BOOLEAN /\ isLoading \in BOOLEAN /\ isEditing \in BOOLEAN
    /\ recognition \in {"null", "engine"}
    /\ engine \in {"idle", "running", "stopping"}
    /\ Len(results) <= MaxResults
    /\ Len(pending) <= MaxInflight

\* ------------------------------------------------------------------ claims
\* C1: every recognition result event appends exactly the newly recognized
\* segment to the transcript, so the transcript is the concatenation of the
\* delivered segments in order, each exactly once.
C1_AppendsEachSegmentOnce ==
    [][(last'.name = "RecognizedSegment" /\ last'.ran)
         => transcription' = transcription \o last'.seg]_vars

\* C2: at most one fetch is in flight, and a RequestSummary intent made while
\* a request is pending (isLoading) changes nothing of the program's state.
C2_SingleFlight ==
    /\ [](Len(pending) <= 1)
    /\ [][(last'.name = "RequestSummary" /\ isLoading) => UNCHANGED progVars]_vars

C2_Witness ==
    /\ last.name = "RequestSummary" /\ ~last.ran
    /\ isLoading /\ Len(pending) = 1 /\ transcription # <<>>

IsBlank(s) == \A i \in 1..Len(s) : s[i] = " "

\* C3: a RequestSummary on an empty or whitespace-only transcript issues no
\* fetch, does not set the loading flag and leaves the summary unchanged.
C3_BlankTranscriptNoRequest ==
    [][(last'.name = "RequestSummary" /\ IsBlank(transcription))
         => /\ pending' = pending
            /\ isLoading' = isLoading
            /\ summarizedText' = summarizedText]_vars

\* C4: after clearTranscription has run the transcript is empty, there is no
\* summary text and no request is pending.
C4_ClearYieldsEmpty ==
    (last.name = "ClearAll" /\ last.ran)
        => /\ transcription = <<>>
           /\ summarizedText = ""
           /\ ~isLoading
           /\ pending = <<>>

\* C5: while the component is mounted, the engine is running iff isListening.
C5_EngineActiveIffListening ==
    mounted => ((engine = "running") <=> isListening)

\* C6: a no-speech error received while listening keeps isListening true,
\* keeps the transcript and every other piece of component state, and issues
\* a start on the same engine object.
C6_NoSpeechKeepsListening ==
    [][(last'.name = "CaptureError" /\ last'.kind = "no-speech"
          /\ mounted /\ isListening)
         => /\ isListening'
            /\ transcription' = transcription
            /\ UNCHANGED <<summarizedText, isLoading, isEditing, recognition,
                           mounted, pending>>
            /\ last'.call \in {"start", "startThrew"}]_vars

C6_Witness ==
    /\ last.name = "CaptureError" /\ last.kind = "no-speech"
    /\ last.call = "start" /\ engine = "running"
    /\ isListening /\ transcription # <<>>

\* a settled fetch that failed: transport failure, non-success status, or a
\* success response without a usable summary field
FailedOutcome(resp) ==
    \/ resp.rejected
    \/ ~Ok(resp)
    \/ (resp.json /\ (~resp.hasSummary \/ resp.summary = ""))

C8_ErrorBodyNotShown ==
    (last.name = "Resolve" /\ last.ran /\ ~last.resp.rejected /\ ~Ok(last.resp))
        => /\ summarizedText = FailedMsg
           /\ summarizedText # last.resp.error

C8_Witness ==
    /\ last.name = "Resolve" /\ last.ran
    /\ last.resp.status = 500 /\ last.resp.error = "upstream timeout"
    /\ summarizedText = FailedMsg

\* C9: after a success response with a non-empty summary string s the summary
\* is exactly s.
C9_ReadyIsResponseSummary ==
    (/\ last.name = "Resolve" /\ last.ran
     /\ ~last.resp.rejected /\ Ok(last.resp) /\ last.resp.json
     /\ last.resp.hasSummary /\ last.resp.summary # "")
        => summarizedText = last.resp.summary

C9_Witness ==
    /\ last.name = "Resolve" /\ last.ran
    /\ Ok(last.resp) /\ last.resp.summary = "## Key Points"
    /\ summarizedText = "## Key Points"

\* C10: after clearTranscription has run, edit mode is off.
C10_ClearForcesEditOff ==
    (last.name = "ClearAll" /\ last.ran) => ~isEditing

\* C11: a StartCapture that fails, because there is no engine object or
\* because start() throws, leaves isListening false and leaves the transcript
\* and the summary as they were.
C11_FailedStartStaysIdle ==
    [][(last'.name = "StartCapture" /\ last'.ran
          /\ (recognition = "null" \/ last'.call = "startThrew"))
         => /\ ~isListening'
            /\ transcription' = transcription
            /\ summarizedText' = summarizedText]_vars

C11_Witness ==
    /\ last.name = "StartCapture" /\ last.ran /\ last.call = "startThrew"
    /\ ~isListening /\ engine # "idle" /\ transcription # <<>>

\* C12: the teardown stops the engine and drops the reference to it, and no
\* later step starts the engine again.
C12_NoStartAfterTeardown ==
    /\ [][last'.name = "Unmount"
            => (engine' # "running" /\ recognition' = "null")]_vars
    /\ [][~mounted
            => (engine' # "running" /\ last'.call \notin {"start", "startThrew"})]_vars

C12_Witness ==
    /\ ~mounted
    /\ last.name = "CaptureError" /\ last.kind = "no-speech"
    /\ engine = "idle"

C14_DisabledCaptureIntentsAreNoOps ==
    [][((last'.name = "StartCapture" /\ isListening)
          \/ (last'.name = "StopCapture" /\ ~isListening))
         => (UNCHANGED progVars /\ last'.call = "none")]_vars

C14_Witness ==
    /\ last.name = "StartCapture" /\ ~last.ran
    /\ isListening /\ engine = "running"

\* C15: a fetch is issued only by an accepted RequestSummary, one per intent;
\* a settled fetch leaves the set of fetches in flight one smaller (nothing is
\* sent again), and a RequestSummary made on a non-empty transcript after a
\* failure issues a fresh fetch.
C15_NoAutomaticRetry ==
    /\ [][IF last'.name = "RequestSummary" /\ last'.ran
           THEN Len(pending') <= Len(pending) + 1
           ELSE IF last'.name = "Resolve"
           THEN Len(pending') = Len(pending) - 1
           ELSE pending' = pending]_vars
    /\ [][(/\ last'.name = "RequestSummary"
           /\ summarizedText \in {FailedMsg, NoSummaryMsg}
           /\ ~isLoading /\ transcription # <<>>)
            => (/\ pending' = Append(pending, [meetingText |-> transcription])
                /\ isLoading')]_vars

C15_Witness ==
    /\ last.name = "RequestSummary" /\ last.call = "fetch"
    /\ summarizedText = FailedMsg /\ isLoading /\ Len(pending) = 1

\* C16: the engine never receives a start call while it is started.
C16_NoStartWhileStarted ==
    last.call # "startThrew"

\* C17: while the component is mounted the loading flag is true only while a
\* fetch is in flight, and when a fetch settles (success, non-success status
\* or rejection) the flag is false and the summary is a returned summary or
\* a fallback string.
C17_PendingEndsOnResolution ==
    /\ [](mounted => (isLoading <=> pending # <<>>))
    /\ [][(last'.name = "Resolve" /\ mounted)
            => (/\ ~isLoading'
                /\ summarizedText' \in Summaries \cup {FailedMsg, NoSummaryMsg})]_vars

C17_Witness ==
    /\ last.name = "Resolve" /\ last.ran /\ last.resp.rejected
    /\ mounted /\ ~isLoading /\ summarizedText = FailedMsg

\* C18: while the component is mounted the summary changes only when
\* clearTranscription runs or a fetch settles; appends, edits and the edit
\* toggle leave it as it was.
C18_SummaryChangesOnlyOnClearOrResolve ==
    [][(mounted' /\ summarizedText' # summarizedText)
         => last'.name \in {"ClearAll", "Resolve"}]_vars

C18_Witness ==
    /\ last.name = "EditedText" /\ last.ran
    /\ summarizedText \in Summaries

IsPrefix(s, t) == Len(s) <= Len(t) /\ SubSeq(t, 1, Len(s)) = s

\* C19: while edit mode is off the transcript changes only by an append of
\* recognized text or by clearTranscription (an EditedText has no effect),
\* and toggling edit mode never changes the transcript.
C19_EditNeedsEditMode ==
    /\ [][(mounted' /\ ~isEditing /\ transcription' # transcription)
            => \/ last'.name = "ClearAll"
               \/ (last'.name = "RecognizedSegment"
                     /\ IsPrefix(transcription, transcription'))]_vars
    /\ [][last'.name = "ToggleEdit" => transcription' = transcription]_vars

C19_Witness ==
    /\ last.name = "EditedText" /\ ~last.ran
    /\ ~isEditing /\ transcription # <<>>

\* C20: while a fetch is in flight, clearing, editing, appending, toggling
\* edit mode, starting and stopping leave it in flight and leave the loading
\* flag true; when it settles, its outcome is written to the summary.
C20_InFlightRequestSurvives ==
    /\ [][(/\ mounted /\ isLoading
           /\ last'.name \in {"ClearAll", "EditedText", "RecognizedSegment",
                               "ToggleEdit", "StartCapture", "StopCapture"})
            => (pending' = pending /\ isLoading')]_vars
    /\ [][(last'.name = "Resolve" /\ mounted)
            => IF /\ ~last'.resp.rejected /\ Ok(last'.resp) /\ last'.resp.json
                  /\ last'.resp.hasSummary /\ last'.resp.summary # ""
               THEN summarizedText' = last'.resp.summary
               ELSE summarizedText' \in {FailedMsg, NoSummaryMsg}]_vars

C20_Witness ==
    /\ last.name = "Resolve" /\ last.ran
    /\ transcription = <<>> /\ summarizedText \in Summaries

\* C21: when the fetch is answered by this endpoint, every status-200
\* response carries a non-empty summary string, the summary becomes exactly
\* that string, and the summary is never "No summary available.".
C21_EndpointSummaryAlwaysReady ==
    /\ summarizedText # NoSummaryMsg
    /\ (last.name = "Resolve" /\ ~last.resp.rejected /\ last.resp.status = 200)
         => /\ last.resp.json /\ last.resp.hasSummary /\ last.resp.summary # ""
            /\ (last.ran => summarizedText = last.resp.summary)

C21_Witness ==
    /\ last.name = "Resolve" /\ last.ran /\ last.kind = "nocontent"
    /\ last.resp.status = 200
    /\ summarizedText = NoSummaryGenerated
====
